---- MODULE Spec2Model ----
(***************************************************************************)
(* Model of the memory store of rumi-bot (src/context_manager.py): the     *)
(* SQLite tables, the writers store_message, update_user_profile,          *)
(* store_summary and cleanup_old_data, and the readers get_recent_context, *)
(* get_conversation_context and get_user_profile.                          *)
(*                                                                         *)
(* Tables are sequences of rows in insertion order.  Identifiers that the  *)
(* code transforms character by character (user ids, message content) are  *)
(* sequences of one-character strings.  Time is an integer clock; one unit *)
(* is the resolution of datetime.utcnow(), and retention spans and         *)
(* look-back windows are given in the same unit.  The clock never runs     *)
(* backwards.  Columns that no statement of the store reads back in a      *)
(* condition (names, first_seen, last_seen, last_activity, edited_at) are   *)
(* left out.  A reader's result is kept with the call's arguments in the   *)
(* record of the last call.  The bot of src/rumi.py is modelled by its     *)
(* handlers, by the position of its background cleanup task and by the    *)
(* start of its process (python rumi.py).                                  *)
(***************************************************************************)
EXTENDS Integers, Sequences, FiniteSets, TLC

VARIABLES now, guilds, channels, users, messages, messages_seq, partitions,
          user_profiles, profiles_seq, context_summaries, summaries_seq, last,
          threads, cleanup_task, process

vars == <<now, guilds, channels, users, messages, messages_seq, partitions,
          user_profiles, profiles_seq, context_summaries, summaries_seq, last,
          threads, cleanup_task, process>>

(* ---------------------------- bounds ----------------------------------- *)

MaxMsgs == 2

MaxTime == 2

MaxKeep == 1

MaxProfiles == 2

MaxSummaries == 2

MaxThreads == 2

(* ---------------------------- inputs ----------------------------------- *)

NULL == -1

GuildIds == {"g1", "g2"}

ChannelIds == {"c1", "c2"}

UserDash == <<"u", "-", "1">>

UserUnder == <<"u", "_", "1">>

UserSpace == <<"u", " ", "1">>

UserIds == {UserDash, UserUnder, UserSpace}

Contents == {<<"a", " ", "b">>}

ReplyIds == {NULL} \cup (1 .. MaxMsgs + 1)

Faults == {"none", "register", "ledger", "create", "insert"}

Notes == {"NULL", "notes"}

TopicLists == {<<>>, <<"t1", "t2">>}

Summaries == {"s1", "s2"}

(* ------------------------ pure helpers --------------------------------- *)

Range(s) == {s[i] : i \in DOMAIN s}

\* len(content.split()): the number of maximal runs of non-blank characters
WordCount(content) ==
    Cardinality({i \in 1 .. Len(content) :
                    content[i] # " " /\ (i = 1 \/ content[i - 1] = " ")})

\* user_id.replace('-', '_').replace('@', '_').replace('.', '_')
Sanitize(user_id) ==
    [i \in DOMAIN user_id |->
        IF user_id[i] \in {"-", "@", "."} THEN "_" ELSE user_id[i]]

\* f"user_messages_{safe_user_id}"
UserTable(user_id) == <<"user_messages_">> \o Sanitize(user_id)

\* the characters SQLite accepts in the unquoted table name that the
\* f-string splices into the CREATE TABLE and INSERT statements
IdentChars == {"u", "1", "_", "a", "b"}

IsIdentifier(name) == \A i \in 2 .. Len(name) : name[i] \in IdentChars

\* json.dumps(common_topics) if common_topics else None
DumpTopics(common_topics) ==
    IF common_topics = <<>> THEN <<"NULL">> ELSE <<"json">> \o common_topics

(* ------------------------ the database --------------------------------- *)

DB == [guilds |-> guilds, channels |-> channels, users |-> users,
       messages |-> messages, messages_seq |-> messages_seq,
       partitions |-> partitions, user_profiles |-> user_profiles,
       profiles_seq |-> profiles_seq, context_summaries |-> context_summaries,
       summaries_seq |-> summaries_seq, conversation_threads |-> <<>>]

Install(db) ==
    /\ guilds' = db.guilds
    /\ channels' = db.channels
    /\ users' = db.users
    /\ messages' = db.messages
    /\ messages_seq' = db.messages_seq
    /\ partitions' = db.partitions
    /\ user_profiles' = db.user_profiles
    /\ profiles_seq' = db.profiles_seq
    /\ context_summaries' = db.context_summaries
    /\ summaries_seq' = db.summaries_seq

HasGuild(db, guild_id) == \E i \in DOMAIN db.guilds : db.guilds[i].guild_id = guild_id

HasChannel(db, channel_id) ==
    \E i \in DOMAIN db.channels : db.channels[i].channel_id = channel_id

HasUser(db, user_id) == \E i \in DOMAIN db.users : db.users[i].user_id = user_id

HasMessage(db, id) == \E i \in DOMAIN db.messages : db.messages[i].id = id

\* faulty variant: a plain insert into a table without the primary key
EnsureGuild_Always(db, guild_id) ==
    [db EXCEPT !.guilds = Append(@, [guild_id |-> guild_id])]

\* INSERT OR IGNORE INTO guilds
EnsureGuild(db, guild_id) ==
    IF HasGuild(db, guild_id) THEN db
    ELSE [db EXCEPT !.guilds = Append(@, [guild_id |-> guild_id])]

\* INSERT OR IGNORE INTO channels
EnsureChannel(db, channel_id, guild_id) ==
    IF HasChannel(db, channel_id) THEN db
    ELSE [db EXCEPT !.channels =
             Append(@, [channel_id |-> channel_id, guild_id |-> guild_id])]

\* faulty variant: the user is not registered before the message is inserted
EnsureUser_Skip(db, user_id) == db

\* INSERT OR IGNORE INTO users (total_messages DEFAULT 0)
EnsureUser(db, user_id) ==
    IF HasUser(db, user_id) THEN db
    ELSE [db EXCEPT !.users =
             Append(@, [user_id |-> user_id, total_messages |-> 0])]

\* faulty variant: the counter is only incremented for users with earlier messages
CountMessage_NotFirst(db, user_id) ==
    [db EXCEPT !.users =
        [i \in DOMAIN @ |->
            IF @[i].user_id = user_id /\ @[i].total_messages > 0
            THEN [@[i] EXCEPT !.total_messages = @ + 1] ELSE @[i]]]

\* UPDATE users SET ..., total_messages = total_messages + 1 WHERE user_id = ?
CountMessage(db, user_id) ==
    [db EXCEPT !.users =
        [i \in DOMAIN @ |->
            IF @[i].user_id = user_id
            THEN [@[i] EXCEPT !.total_messages = @ + 1] ELSE @[i]]]

\* faulty variant: id is a plain INTEGER PRIMARY KEY, so the new row gets
\* one more than the largest id that is in the table
InsertMessage_Rowid(db, row) ==
    LET id == IF db.messages = <<>> THEN 1
              ELSE db.messages[Len(db.messages)].id + 1
    IN [db EXCEPT !.messages = Append(@, [row EXCEPT !.id = id]),
                  !.messages_seq = id]

\* INSERT INTO messages; the id comes from the AUTOINCREMENT sequence
InsertMessage(db, row) ==
    [db EXCEPT !.messages = Append(@, row), !.messages_seq = row.id]

\* the foreign keys of messages, checked when the INSERT statement ends
ParentsExist(db, row) ==
    /\ HasUser(db, row.user_id)
    /\ HasGuild(db, row.guild_id)
    /\ HasChannel(db, row.channel_id)

\* faulty variant: foreign keys are not enforced on the connection
ReplyExists_Unchecked(db, row) == TRUE

ReplyExists(db, row) == row.reply_to_id = NULL \/ HasMessage(db, row.reply_to_id)

\* CREATE TABLE IF NOT EXISTS user_messages_...
CreateUserTable(db, user_table) ==
    IF user_table \in DOMAIN db.partitions THEN db
    ELSE [db EXCEPT !.partitions = @ @@ (user_table :> [rows |-> <<>>, seq |-> 0])]

\* faulty variant: the mirror row is written twice
InsertUserRow_Twice(db, user_table, row, t) ==
    LET id == db.partitions[user_table].seq + 1
        mirror == [message_id |-> row.id, guild_id |-> row.guild_id,
                   channel_id |-> row.channel_id, content |-> row.content,
                   timestamp |-> t, word_count |-> row.word_count,
                   reply_to_id |-> row.reply_to_id]
    IN [db EXCEPT !.partitions[user_table] =
           [rows |-> @.rows \o <<mirror @@ [id |-> id], mirror @@ [id |-> id + 1]>>,
            seq |-> id + 1]]

\* INSERT INTO user_messages_...
InsertUserRow(db, user_table, row, t) ==
    LET id == db.partitions[user_table].seq + 1
    IN [db EXCEPT !.partitions[user_table] =
           [rows |-> Append(@.rows,
                            [id |-> id, message_id |-> row.id,
                             guild_id |-> row.guild_id,
                             channel_id |-> row.channel_id,
                             content |-> row.content, timestamp |-> t,
                             word_count |-> row.word_count,
                             reply_to_id |-> row.reply_to_id]),
            seq |-> id]]

Commit(before, work) == work

\* Whether the connection of a call is closed when the call ends.  A
\* conn.close() in a finally clause runs on every path; a conn.close() that
\* is the last statement of the function runs only if no statement raised.
Closes(in_finally, error) == in_finally \/ error = "none"

\* faulty variant: the failed transaction's statements are kept
Rollback_Keep(before, work) == work

Rollback(before, work) == before


(* ------------------------ store_message -------------------------------- *)

\* The statements of _store_message_sync run in order on the connection's
\* working copy.  error is the exception that ends the try block ("none" if
\* it reaches conn.commit()), work is the working copy at that point.
\* fault names the statement at which the storage engine reports an error
\* (database locked, disk I/O); tM and tP are the values of the two
\* datetime.utcnow() calls that end up in messages.timestamp and in the
\* partition row's timestamp.
StoreTxn(db, guild_id, channel_id, user_id, content, message_type, reply_to_id, fault, tM, tP) ==
    LET d0 == EnsureChannel(EnsureGuild(db, guild_id), channel_id, guild_id)
        d1 == CountMessage(EnsureUser(d0, user_id), user_id)
        row == [id |-> d1.messages_seq + 1, user_id |-> user_id,
                guild_id |-> guild_id, channel_id |-> channel_id,
                content |-> content, timestamp |-> tM,
                message_type |-> message_type, reply_to_id |-> reply_to_id,
                word_count |-> WordCount(content)]
        d2 == InsertMessage(d1, row)
        user_table == UserTable(user_id)
        d3 == CreateUserTable(d2, user_table)
        d4 == InsertUserRow(d3, user_table, row, tP)
    IN  IF fault = "register" THEN [error |-> "storage", work |-> d0]
        ELSE IF fault = "ledger" THEN [error |-> "storage", work |-> d1]
        ELSE IF ~ParentsExist(d2, row) THEN [error |-> "fk_parent", work |-> d1]
        ELSE IF ~ReplyExists(d2, row) THEN [error |-> "fk_reply", work |-> d1]
        ELSE IF ~IsIdentifier(user_table) THEN [error |-> "syntax", work |-> d2]
        ELSE IF fault = "create" THEN [error |-> "storage", work |-> d2]
        ELSE IF fault = "insert" THEN [error |-> "storage", work |-> d3]
        ELSE [error |-> "none", work |-> d4]

\* what the caller of store_message sees: the except clause prints the
\* error and the call returns None on both paths.  call is the parity of
\* the number of calls made so far
StoreOutcome(error) ==
    [op |-> "store_message", committed |-> error = "none",
     raised |-> FALSE, error |-> error, call |-> 1 - last.call,
     closed |-> Closes(TRUE, error)]

store_message(guild_id, channel_id, user_id, content, message_type, reply_to_id, fault, tM, tP) ==
    /\ messages_seq < MaxMsgs
    /\ now <= tM /\ tM <= tP /\ tP <= MaxTime
    /\ LET txn == StoreTxn(DB, guild_id, channel_id, user_id, content,
                           message_type, reply_to_id, fault, tM, tP)
       IN /\ Install(IF txn.error = "none" THEN Commit(DB, txn.work)
                     ELSE Rollback(DB, txn.work))
          /\ last' = StoreOutcome(txn.error)
    /\ now' = tP
    /\ UNCHANGED <<threads, cleanup_task, process>>

(* ------------------------ concurrent store_message -------------------- *)

\* asyncio.to_thread runs every _store_message_sync call on a thread of the
\* default executor, each with its own connection.  threads[w] is the call
\* that thread w runs: idle (no call yet), writing (the connection holds the
\* database's write lock, its statements are not committed) or returned.

\* the connection that holds the write lock, if any
Writing == {w \in DOMAIN threads : threads[w].pc = "writing"}

\* The first INSERT takes the write lock; SQLite gives it to one connection
\* at a time, so the statements run on the committed tables.
ThreadBegin(w, guild_id, channel_id, user_id, fault) ==
    /\ threads[w].pc = "idle"
    /\ Writing = {}
    /\ threads' = [threads EXCEPT ![w] =
           [pc |-> "writing", user_id |-> user_id,
            txn |-> StoreTxn(DB, guild_id, channel_id, user_id,
                             <<"a", " ", "b">>, "user", NULL, fault, now, now)]]
    /\ UNCHANGED <<now, guilds, channels, users, messages, messages_seq,
                   partitions, user_profiles, profiles_seq, context_summaries,
                   summaries_seq, last, cleanup_task, process>>

\* conn.commit() or the except clause's conn.rollback(), then conn.close()
ThreadEnd(w) ==
    /\ threads[w].pc = "writing"
    /\ LET txn == threads[w].txn
       IN /\ Install(IF txn.error = "none" THEN Commit(DB, txn.work)
                     ELSE Rollback(DB, txn.work))
          /\ last' = StoreOutcome(txn.error)
          /\ threads' = [threads EXCEPT ![w] =
                 [pc |-> "returned", user_id |-> @.user_id,
                  error |-> txn.error]]
    /\ now' = now
    /\ UNCHANGED <<cleanup_task, process>>

\* sqlite3.connect(self.db_path) keeps the default timeout: a connection
\* that waits longer than that for the write lock gets "database is
\* locked", which the except clause swallows like any other error
ThreadBusy(w, user_id) ==
    /\ threads[w].pc = "idle"
    /\ Writing # {}
    /\ threads' = [threads EXCEPT ![w] =
           [pc |-> "returned", user_id |-> user_id, error |-> "locked"]]
    /\ last' = StoreOutcome("locked")
    /\ Install(DB)
    /\ now' = now
    /\ UNCHANGED <<cleanup_task, process>>

(* ------------------------ update_user_profile -------------------------- *)

\* SELECT COUNT(*) FROM messages WHERE user_id = ? AND guild_id = ?
MessageCount(db, user_id, guild_id) ==
    Cardinality({i \in DOMAIN db.messages :
                    /\ db.messages[i].user_id = user_id
                    /\ db.messages[i].guild_id = guild_id})

\* faulty variant: a plain INSERT into a table without the UNIQUE constraint
UpsertProfile_Insert(db, row) ==
    [db EXCEPT !.user_profiles = Append(@, row), !.profiles_seq = row.id]

\* faulty variant: the new row replaces the user's profiles in every guild
UpsertProfile_ByUser(db, row) ==
    LET kept == SelectSeq(db.user_profiles, LAMBDA p : p.user_id # row.user_id)
    IN [db EXCEPT !.user_profiles = Append(kept, row), !.profiles_seq = row.id]

\* INSERT OR REPLACE INTO user_profiles: the row that holds the same
\* (user_id, guild_id) is deleted and the new row gets a fresh id
UpsertProfile(db, row) ==
    LET kept == SelectSeq(db.user_profiles,
                     LAMBDA p : ~(p.user_id = row.user_id /\ p.guild_id = row.guild_id))
    IN [db EXCEPT !.user_profiles = Append(kept, row), !.profiles_seq = row.id]

ProfileTxn(db, user_id, guild_id, personality_notes, common_topics, interaction_style, fault, t) ==
    LET row == [id |-> db.profiles_seq + 1, user_id |-> user_id,
                guild_id |-> guild_id,
                personality_notes |-> personality_notes,
                common_topics |-> DumpTopics(common_topics),
                interaction_style |-> interaction_style,
                message_count |-> MessageCount(db, user_id, guild_id),
                analysis_date |-> t]
    IN  IF fault # "none" THEN [error |-> "storage", work |-> db]
        ELSE IF ~(HasUser(db, user_id) /\ HasGuild(db, guild_id))
             THEN [error |-> "fk_parent", work |-> db]
        ELSE [error |-> "none", work |-> UpsertProfile(db, row)]

\* as in store_message, the except clause prints and the call returns None
ProfileOutcome(error) ==
    [op |-> "update_user_profile", committed |-> error = "none",
     raised |-> FALSE, error |-> error, call |-> 1 - last.call,
     closed |-> Closes(TRUE, error)]

update_user_profile(user_id, guild_id, personality_notes, common_topics, interaction_style, fault) ==
    /\ profiles_seq < MaxProfiles
    /\ LET txn == ProfileTxn(DB, user_id, guild_id, personality_notes,
                             common_topics, interaction_style, fault, now)
       IN /\ Install(IF txn.error = "none" THEN Commit(DB, txn.work)
                     ELSE Rollback(DB, txn.work))
          /\ last' = ProfileOutcome(txn.error)
    /\ now' = now
    /\ UNCHANGED <<threads, cleanup_task, process>>

(* ------------------------ get_user_profile ----------------------------- *)

\* json.loads(row[5]) if row[5] else []
LoadTopics(text) == IF text = <<"NULL">> THEN <<>> ELSE Tail(text)

\* the columns of user_profiles in a joined row without a profile
NoProfile ==
    [personality_notes |-> "NULL", common_topics |-> <<"NULL">>,
     interaction_style |-> "NULL", message_count |-> NULL]

\* faulty variant: an inner join, users without a profile yield no row
LeftJoinProfile_Inner(db, u, guild_id) ==
    LET ps == SelectSeq(db.user_profiles,
                  LAMBDA p : p.user_id = u.user_id /\ p.guild_id = guild_id)
    IN  [i \in DOMAIN ps |-> [u |-> u, p |-> ps[i]]]

\* users u LEFT JOIN user_profiles p ON u.user_id = p.user_id AND p.guild_id = ?
LeftJoinProfile(db, u, guild_id) ==
    LET ps == SelectSeq(db.user_profiles,
                  LAMBDA p : p.user_id = u.user_id /\ p.guild_id = guild_id)
    IN  IF ps = <<>> THEN <<[u |-> u, p |-> NoProfile]>>
        ELSE [i \in DOMAIN ps |-> [u |-> u, p |-> ps[i]]]

\* The result is <<>> for None and <<d>> for the dictionary d built from
\* the first row of the join (cursor.fetchone()).
get_user_profile_sync(db, user_id, guild_id) ==
    LET us == SelectSeq(db.users, LAMBDA u : u.user_id = user_id)
        rows == IF us = <<>> THEN <<>> ELSE LeftJoinProfile(db, us[1], guild_id)
    IN  IF rows = <<>> THEN <<>>
        ELSE <<[total_messages |-> rows[1].u.total_messages,
                personality_notes |-> rows[1].p.personality_notes,
                common_topics |-> LoadTopics(rows[1].p.common_topics),
                interaction_style |-> rows[1].p.interaction_style,
                guild_message_count |->
                    IF rows[1].p.message_count = NULL THEN 0
                    ELSE rows[1].p.message_count]>>

\* a read: the tables are left alone and the caller gets the profile
get_user_profile(user_id, guild_id) ==
    /\ last' = [op |-> "get_user_profile", committed |-> FALSE,
                raised |-> FALSE, error |-> "none", call |-> 1 - last.call,
                user_id |-> user_id, guild_id |-> guild_id,
                result |-> get_user_profile_sync(DB, user_id, guild_id)]
    /\ Install(DB)
    /\ now' = now
    /\ UNCHANGED <<threads, cleanup_task, process>>

(* ------------------------ get_recent_context --------------------------- *)

\* ORDER BY m.timestamp DESC; rows with equal timestamp stay in table order
RECURSIVE OrderByTimestampDesc(_)
OrderByTimestampDesc(rows) ==
    IF rows = <<>> THEN <<>>
    ELSE LET m == CHOOSE i \in DOMAIN rows :
                      \A j \in DOMAIN rows :
                          \/ rows[i].timestamp > rows[j].timestamp
                          \/ rows[i].timestamp = rows[j].timestamp /\ i <= j
         IN <<rows[m]>> \o OrderByTimestampDesc(
                SubSeq(rows, 1, m - 1) \o SubSeq(rows, m + 1, Len(rows)))

\* faulty variant: the cap keeps the last rows of the ordering
Limit_Last(rows, limit) ==
    IF limit < 0 \/ limit >= Len(rows) THEN rows
    ELSE SubSeq(rows, Len(rows) - limit + 1, Len(rows))

\* LIMIT ?: a negative limit is no limit
Limit(rows, limit) ==
    IF limit < 0 \/ limit >= Len(rows) THEN rows ELSE SubSeq(rows, 1, limit)

\* faulty variant: the rows are returned as the query delivers them
Reversed_Not(rows) == rows

\* list(reversed(messages))
Reversed(rows) == [i \in 1 .. Len(rows) |-> rows[Len(rows) + 1 - i]]

\* the dictionary built from one row of the SELECT list
ContextRow(m) ==
    [user_id |-> m.user_id, content |-> m.content, timestamp |-> m.timestamp,
     message_type |-> m.message_type, word_count |-> m.word_count,
     reply_to_id |-> m.reply_to_id]

\* SELECT ... FROM messages m JOIN users u ON m.user_id = u.user_id
\* WHERE m.guild_id = ? AND m.channel_id = ? AND m.timestamp > ?
\* ORDER BY m.timestamp DESC LIMIT ?, then reversed
get_recent_context_sync(db, guild_id, channel_id, hours, limit, t) ==
    LET since == t - hours
        found == SelectSeq(db.messages,
                     LAMBDA m : /\ HasUser(db, m.user_id)
                                /\ m.guild_id = guild_id
                                /\ m.channel_id = channel_id
                                /\ m.timestamp > since)
        rows == Limit(OrderByTimestampDesc(found), limit)
    IN  Reversed([i \in DOMAIN rows |-> ContextRow(rows[i])])

\* a read: the tables are left alone and the caller gets the rows
get_recent_context(guild_id, channel_id, hours, limit) ==
    /\ last' = [op |-> "get_recent_context", committed |-> FALSE,
                raised |-> FALSE, error |-> "none", call |-> 1 - last.call,
                guild_id |-> guild_id, channel_id |-> channel_id,
                hours |-> hours, limit |-> limit,
                result |-> get_recent_context_sync(DB, guild_id, channel_id,
                                                   hours, limit, now)]
    /\ Install(DB)
    /\ now' = now
    /\ UNCHANGED <<threads, cleanup_task, process>>

(* ------------------------ get_user_messages ---------------------------- *)

\* SELECT name FROM sqlite_master WHERE type='table' AND name=?
TableExists(db, user_table) == user_table \in DOMAIN db.partitions

\* `if guild_id:` adds the condition only for a truthy value: None (written
\* "NULL") and the empty string add none
TruthyText(value) == value \notin {"NULL", ""}

\* `if hours:` adds the condition only for a truthy value: None and 0 add none
TruthyNumber(value) == value \notin {NULL, 0}

\* SELECT * FROM user_messages_... [WHERE guild_id = ? AND timestamp > ?]
\* ORDER BY timestamp DESC LIMIT ?, then reversed; [] without the table
get_user_messages_sync(db, user_id, guild_id, limit, hours, t) ==
    LET user_table == UserTable(user_id)
    IN  IF ~TableExists(db, user_table) THEN <<>>
        ELSE LET found == SelectSeq(db.partitions[user_table].rows,
                              LAMBDA r :
                                  /\ TruthyText(guild_id) => r.guild_id = guild_id
                                  /\ TruthyNumber(hours) => r.timestamp > t - hours)
             IN  Reversed(Limit(OrderByTimestampDesc(found), limit))

\* a read: the tables are left alone and the caller gets the rows
get_user_messages(user_id, guild_id, limit, hours) ==
    /\ last' = [op |-> "get_user_messages", committed |-> FALSE,
                raised |-> FALSE, error |-> "none", call |-> 1 - last.call,
                user_id |-> user_id, guild_id |-> guild_id,
                limit |-> limit, hours |-> hours,
                result |-> get_user_messages_sync(DB, user_id, guild_id,
                                                  limit, hours, now)]
    /\ Install(DB)
    /\ now' = now
    /\ UNCHANGED <<threads, cleanup_task, process>>

(* ------------------------ init_database -------------------------------- *)

\* the tables that init_database creates; conversation_threads is written
\* by no statement of the store and stays empty
FixedTables ==
    {"guilds", "channels", "users", "user_profiles", "messages",
     "context_summaries", "conversation_threads"}

\* the file that sqlite3.connect creates when db_path does not exist: no
\* table, no partition, no id given out
NewFile ==
    [messages_seq |-> 0, profiles_seq |-> 0, summaries_seq |-> 0,
     partitions |-> <<>>]

\* faulty variant: the table is created anew whether it exists or not
CreateTable_Anew(db, table) ==
    (table :> <<>>) @@ db

\* CREATE TABLE IF NOT EXISTS
CreateTableIfNotExists(db, table) ==
    IF table \in DOMAIN db THEN db ELSE (table :> <<>>) @@ db

\* the seven CREATE TABLE statements in the order of the code; the indexes
\* that follow hold no rows of their own
init_database_sync(db) ==
    LET d1 == CreateTableIfNotExists(db, "guilds")
        d2 == CreateTableIfNotExists(d1, "channels")
        d3 == CreateTableIfNotExists(d2, "users")
        d4 == CreateTableIfNotExists(d3, "user_profiles")
        d5 == CreateTableIfNotExists(d4, "messages")
        d6 == CreateTableIfNotExists(d5, "context_summaries")
    IN  CreateTableIfNotExists(d6, "conversation_threads")

\* ContextManager(db_path) on the database in use: __init__ runs
\* init_database and commits
init_database ==
    /\ Install(Commit(DB, init_database_sync(DB)))
    /\ last' = [op |-> "init_database", committed |-> TRUE, raised |-> FALSE,
                error |-> "none", call |-> 1 - last.call]
    /\ now' = now
    /\ UNCHANGED <<threads, cleanup_task, process>>


(* ------------------------ store_summary -------------------------------- *)

\* faulty variant: the new summary replaces the channel's earlier summaries
InsertSummary_Replace(db, row, t) ==
    [db EXCEPT !.context_summaries =
                   Append(SelectSeq(@, LAMBDA s : s.channel_id # row.channel_id),
                          row @@ [id |-> db.summaries_seq + 1,
                                  created_at |-> t]),
               !.summaries_seq = @ + 1]

\* INSERT INTO context_summaries: id and created_at are not in the column
\* list; id INTEGER PRIMARY KEY AUTOINCREMENT is one more than the largest
\* id the table ever gave out, and created_at gets DEFAULT
\* CURRENT_TIMESTAMP, the clock at the insert
InsertSummary(db, row, t) ==
    [db EXCEPT !.context_summaries =
                   Append(@, row @@ [id |-> db.summaries_seq + 1,
                                     created_at |-> t]),
               !.summaries_seq = @ + 1]

\* The connection of _store_summary_sync never enables foreign keys, so the
\* guild and the channel need not be registered.
SummaryTxn(db, guild_id, channel_id, summary, message_count, start_time, end_time, fault, t) ==
    LET row == [guild_id |-> guild_id, channel_id |-> channel_id,
                summary |-> summary, message_count |-> message_count,
                start_time |-> start_time, end_time |-> end_time]
    IN  IF fault # "none" THEN [error |-> "storage", work |-> db]
        ELSE [error |-> "none", work |-> InsertSummary(db, row, t)]

\* no try block: an exception propagates to the caller
SummaryOutcome(error) ==
    [op |-> "store_summary", committed |-> error = "none",
     raised |-> error # "none", error |-> error, call |-> 1 - last.call,
     closed |-> Closes(FALSE, error)]

store_summary(guild_id, channel_id, summary, message_count, start_time, end_time, fault) ==
    /\ summaries_seq < MaxSummaries
    /\ LET txn == SummaryTxn(DB, guild_id, channel_id, summary, message_count,
                             start_time, end_time, fault, now)
       IN /\ Install(IF txn.error = "none" THEN Commit(DB, txn.work)
                     ELSE Rollback(DB, txn.work))
          /\ last' = SummaryOutcome(txn.error)
    /\ now' = now
    /\ UNCHANGED <<threads, cleanup_task, process>>

(* ------------------------ get_conversation_context --------------------- *)

\* ORDER BY created_at ASC; rows with equal created_at stay in table order
RECURSIVE OrderByCreatedAt(_)
OrderByCreatedAt(rows) ==
    IF rows = <<>> THEN <<>>
    ELSE LET m == CHOOSE i \in DOMAIN rows :
                      \A j \in DOMAIN rows :
                          \/ rows[i].created_at < rows[j].created_at
                          \/ rows[i].created_at = rows[j].created_at /\ i <= j
         IN <<rows[m]>> \o OrderByCreatedAt(
                SubSeq(rows, 1, m - 1) \o SubSeq(rows, m + 1, Len(rows)))

\* faulty variant: the query does not filter on the channel
RecentSummaries_AnyChannel(db, guild_id, channel_id, since) ==
    OrderByCreatedAt(SelectSeq(db.context_summaries,
        LAMBDA s : s.guild_id = guild_id /\ s.created_at > since))

\* faulty variant: the lower bound of the window includes created_at = since
RecentSummaries_Inclusive(db, guild_id, channel_id, since) ==
    OrderByCreatedAt(SelectSeq(db.context_summaries,
        LAMBDA s : /\ s.guild_id = guild_id
                   /\ s.channel_id = channel_id
                   /\ s.created_at >= since))

\* SELECT ... FROM context_summaries WHERE guild_id = ? AND channel_id = ?
\* AND created_at > ? ORDER BY created_at ASC
RecentSummaries(db, guild_id, channel_id, since) ==
    OrderByCreatedAt(SelectSeq(db.context_summaries,
        LAMBDA s : /\ s.guild_id = guild_id
                   /\ s.channel_id = channel_id
                   /\ s.created_at > since))

NoContext == <<"No recent conversation context available.">>

ContextHeader == <<"## Recent Conversation Context", "">>

\* f"**{start_time} - {end_time}** ({msg_count} messages):"
TimeRangeLine(start_time, end_time, msg_count) ==
    "**" \o ToString(start_time) \o " - " \o ToString(end_time) \o "** ("
         \o ToString(msg_count) \o " messages):"

\* the three parts appended for every summary
RECURSIVE ContextParts(_)
ContextParts(summaries) ==
    IF summaries = <<>> THEN <<>>
    ELSE <<TimeRangeLine(summaries[1].start_time, summaries[1].end_time,
                         summaries[1].message_count),
           summaries[1].summary, "---">> \o ContextParts(Tail(summaries))

\* The returned text as the sequence of its lines: "\n".join(context_parts)
\* puts one part on each line, and the newline that ends the first part
\* leaves an empty line after the heading.
get_conversation_context_sync(db, guild_id, channel_id, days_back, t) ==
    LET summaries == RecentSummaries(db, guild_id, channel_id, t - days_back)
    IN  IF summaries = <<>> THEN NoContext
        ELSE ContextHeader \o ContextParts(summaries)

\* a read: the tables are left alone and the caller gets the text
get_conversation_context(guild_id, channel_id, days_back) ==
    /\ last' = [op |-> "get_conversation_context", committed |-> FALSE,
                raised |-> FALSE, error |-> "none", call |-> 1 - last.call,
                guild_id |-> guild_id, channel_id |-> channel_id,
                days_back |-> days_back,
                result |-> get_conversation_context_sync(DB, guild_id,
                               channel_id, days_back, now)]
    /\ Install(DB)
    /\ now' = now
    /\ UNCHANGED <<threads, cleanup_task, process>>

(* ------------------------ cleanup_old_data ----------------------------- *)

SummaryDays == 90

\* faulty variant: the ledger delete also takes the rows at the cutoff
DeleteOldMessages_Inclusive(db, cutoff) ==
    [db EXCEPT !.messages = SelectSeq(@, LAMBDA m : ~(m.timestamp <= cutoff))]

\* faulty variant: every run also removes the oldest row that is left
DeleteOldMessages_Trim(db, cutoff) ==
    [db EXCEPT !.messages =
        LET kept == SelectSeq(@, LAMBDA m : ~(m.timestamp < cutoff))
        IN  IF kept = <<>> THEN kept ELSE Tail(kept)]

\* DELETE FROM messages WHERE timestamp < cutoff
DeleteOldMessages(db, cutoff) ==
    [db EXCEPT !.messages = SelectSeq(@, LAMBDA m : ~(m.timestamp < cutoff))]

\* faulty variant: the partition delete also takes the rows at the cutoff
DeleteOldUserRows_Inclusive(db, cutoff) ==
    [db EXCEPT !.partitions =
        [t \in DOMAIN @ |->
            [@[t] EXCEPT !.rows = SelectSeq(@, LAMBDA r : ~(r.timestamp <= cutoff))]]]

\* for every table named user_messages_...: DELETE ... WHERE timestamp < cutoff
DeleteOldUserRows(db, cutoff) ==
    [db EXCEPT !.partitions =
        [t \in DOMAIN @ |->
            IF t[1] = "user_messages_"
            THEN [@[t] EXCEPT !.rows = SelectSeq(@, LAMBDA r : ~(r.timestamp < cutoff))]
            ELSE @[t]]]

\* faulty variant: the summary delete also takes the rows at the cutoff
DeleteOldSummaries_Inclusive(db, summary_cutoff) ==
    [db EXCEPT !.context_summaries =
        SelectSeq(@, LAMBDA s : ~(s.created_at <= summary_cutoff))]

\* DELETE FROM context_summaries WHERE created_at < summary_cutoff
DeleteOldSummaries(db, summary_cutoff) ==
    [db EXCEPT !.context_summaries =
        SelectSeq(@, LAMBDA s : ~(s.created_at < summary_cutoff))]

\* The connection of _cleanup_old_data_sync never enables foreign keys, so
\* the deletes are not checked against the rows that reference them.  An
\* exception leaves the function before conn.commit(): nothing is kept.
CleanupTxn(db, days_to_keep, fault, t) ==
    LET cutoff == t - days_to_keep
        d1 == DeleteOldMessages(db, cutoff)
        d2 == DeleteOldUserRows(d1, cutoff)
        d3 == DeleteOldSummaries(d2, t - SummaryDays)
    IN  IF fault # "none" THEN [error |-> "storage", work |-> d1]
        ELSE [error |-> "none", work |-> d3]

\* no try block: an exception propagates to the caller
CleanupOutcome(error) ==
    [op |-> "cleanup_old_data", committed |-> error = "none",
     raised |-> error # "none", error |-> error, call |-> 1 - last.call,
     closed |-> Closes(FALSE, error)]

cleanup_old_data(days_to_keep, fault) ==
    /\ LET txn == CleanupTxn(DB, days_to_keep, fault, now)
       IN /\ Install(IF txn.error = "none" THEN Commit(DB, txn.work)
                     ELSE Rollback(DB, txn.work))
          /\ last' = CleanupOutcome(txn.error)
    /\ now' = now
    /\ UNCHANGED <<threads, cleanup_task, process>>

(* ------------------------ the clock ------------------------------------ *)

Tick ==
    /\ now < MaxTime
    /\ now' = now + 1
    /\ UNCHANGED <<guilds, channels, users, messages, messages_seq, partitions,
                   user_profiles, profiles_seq, context_summaries,
                   summaries_seq, last, threads, cleanup_task, process>>

\* a pause of about the summary retention span between two calls
Sleep ==
    /\ \E d \in {SummaryDays - 1, SummaryDays, SummaryDays + 1} :
           /\ now + d <= SummaryDays + MaxTime
           /\ now' = now + d
    /\ UNCHANGED <<guilds, channels, users, messages, messages_seq, partitions,
                   user_profiles, profiles_seq, context_summaries,
                   summaries_seq, last, threads, cleanup_task, process>>

(* ------------------------ the bot (src/rumi.py) ------------------------ *)

\* the names that the import statements and the definitions of rumi.py bind
\* in the module's namespace
ModuleNames ==
    {"os", "discord", "app_commands", "load_dotenv", "SummaryCommand",
     "MemoryCommand", "DatabaseCommand", "ChatCommand", "RuminateCommand",
     "ContextManager", "AIClient", "context_manager", "ai_client", "Rumi",
     "main"}

\* The event loop runs one coroutine at a time, from one await to the next:
\* a task that is inside its try or except clause holds the loop.
EventLoopBusy == cleanup_task \in {"try", "except"}

\* on_ready creates the task; the event loop starts it later
on_ready ==
    /\ cleanup_task = "none"
    /\ ~EventLoopBusy
    /\ cleanup_task' = "scheduled"
    /\ UNCHANGED <<now, guilds, channels, users, messages, messages_seq,
                   partitions, user_profiles, profiles_seq, context_summaries,
                   summaries_seq, last, threads, process>>

\* on_message of a member's message in a guild: the handler needs the event
\* loop
on_message(guild_id, channel_id, user_id, content) ==
    /\ ~EventLoopBusy
    /\ store_message(guild_id, channel_id, user_id, content, "user", NULL,
                     "none", now, now)

\* One step of the task, by its position:
\*   scheduled  the event loop starts the coroutine: while True, try
\*   try        line 84 looks up the name asyncio: if it is bound the task is
\*              suspended in sleep, otherwise NameError goes to the except
\*   sleeping   the day is over, the task goes on to line 85
\*   cleanup    cleanup_old_data() with the default days_to_keep (the
\*              longest span of the model), then print and the next round,
\*              or the except clause if the call raised
\*   except     line 88 prints the error, then the next round
memory_cleanup_loop(fault) ==
    /\ cleanup_task # "none"
    /\ cleanup_task' =
           CASE cleanup_task = "scheduled" -> "try"
             [] cleanup_task = "try" ->
                    IF "asyncio" \in ModuleNames THEN "sleeping" ELSE "except"
             [] cleanup_task = "sleeping" -> "cleanup"
             [] cleanup_task = "cleanup" ->
                    IF fault = "none" THEN "try" ELSE "except"
             [] cleanup_task = "except" -> "try"
    /\ IF cleanup_task = "cleanup"
       THEN LET txn == CleanupTxn(DB, MaxKeep, fault, now)
            IN /\ Install(IF txn.error = "none" THEN Commit(DB, txn.work)
                          ELSE Rollback(DB, txn.work))
               /\ last' = CleanupOutcome(txn.error)
       ELSE Install(DB) /\ last' = last
    /\ now' = IF cleanup_task = "sleeping" /\ now < MaxTime THEN now + 1 ELSE now
    /\ UNCHANGED <<threads, process>>

(* ------------------------ python rumi.py ------------------------------- *)

\* the variables of the environment, after load_dotenv(), that the start reads
EnvNames == {"DISCORD_TOKEN", "OPENAI_API_KEY", "GROQ_API_KEY"}

\* AIClient.__init__: the key is OPENAI_API_KEY or else GROQ_API_KEY, and
\* without a key the constructor raises ValueError
AIClient_init(environ) ==
    IF {"OPENAI_API_KEY", "GROQ_API_KEY"} \cap environ = {}
    THEN [raised |-> TRUE,
          error |-> "Missing OPENAI_API_KEY or GROQ_API_KEY in environment"]
    ELSE [raised |-> FALSE, error |-> "none"]

\* the process of a bot that is connected, with every variable set
Running ==
    [pc |-> "running", environ |-> EnvNames, error |-> "none",
     warned |-> FALSE]

\* the process when the interpreter starts on rumi.py
Launches ==
    {[pc |-> "start", environ |-> environ, error |-> "none", warned |-> FALSE] :
        environ \in SUBSET EnvNames}

\* The body of the module, down to the definition of main.  The imports of
\* lines 11 to 15 run the bodies of the command modules, which construct
\* their own AIClient (commands/memory.py line 14, chat.py line 15,
\* ruminate.py line 16), and line 21 constructs the one of rumi.py.  None
\* of these statements is inside a try: an exception ends the process with
\* a traceback before line 106 is reached.
import_rumi ==
    /\ process.pc = "start"
    /\ LET ai_client == AIClient_init(process.environ)
       IN process' = [process EXCEPT
              !.pc = IF ai_client.raised THEN "exited" ELSE "imported",
              !.error = ai_client.error]
    /\ UNCHANGED <<now, guilds, channels, users, messages, messages_seq,
                   partitions, user_profiles, profiles_seq, context_summaries,
                   summaries_seq, last, threads, cleanup_task>>

\* main(), called from line 107: the token is required, a failing AIClient()
\* is reported as a warning, then the bot is constructed and run
main ==
    /\ process.pc = "imported"
    /\ IF "DISCORD_TOKEN" \notin process.environ
       THEN process' = [process EXCEPT !.pc = "exited",
                            !.error = "Missing DISCORD_TOKEN in .env"]
       ELSE process' = [process EXCEPT !.pc = "running",
                            !.warned = AIClient_init(process.environ).raised]
    /\ UNCHANGED <<now, guilds, channels, users, messages, messages_seq,
                   partitions, user_profiles, profiles_seq, context_summaries,
                   summaries_seq, last, threads, cleanup_task>>

(* ------------------------ /summary (src/commands/summary.py) ----------- *)

\* What the command sends back.  A channel that is no text channel and a
\* period without messages end the command early; otherwise get_summary
\* asks the model, and its text, or the error of the call, is sent.
SummaryReply(text_channel, found, api, summary) ==
    IF ~text_channel THEN "This command only works in text channels."
    ELSE IF found = 0 THEN "No messages found"
    ELSE IF api = "ok" THEN summary
    ELSE "Error generating summary"

\* SummaryCommand.execute: the messages come from the channel's history on
\* Discord and the reply goes to Discord; no statement of the command reads
\* or writes the store.
SummaryCommand_execute(guild_id, channel_id, text_channel, found, api, summary) ==
    /\ last' = [op |-> "summary", committed |-> FALSE, raised |-> FALSE,
                error |-> "none", call |-> 1 - last.call,
                guild_id |-> guild_id, channel_id |-> channel_id,
                generated |-> text_channel /\ found > 0 /\ api = "ok",
                summary |-> summary,
                reply |-> SummaryReply(text_channel, found, api, summary)]
    /\ Install(DB)
    /\ now' = now
    /\ UNCHANGED <<threads, cleanup_task, process>>


(* ------------------------ /memory analyze ------------------------------ *)
(* src/commands/memory.py and src/ai_client.py                              *)

\* texts that get_completion can return: the JSON object that the prompt
\* asks for, prose, and the text that get_completion makes of a failed call
ObjectText ==
    "{\"personality_notes\": \"notes\", \"common_topics\": [\"t1\", \"t2\"], \"interaction_style\": \"style\"}"

ProseText == "likes jokes"

\* what client.chat.completions.create can do: raise an exception with a
\* message, or return a response; a response holds its choices' contents
\* and, when it is streamed, the contents of its chunks' first choices
\* ("" is a chunk without content)
ApiErrors == {"timeout", "rate limit"}

ApiOutcomes ==
    [error : ApiErrors, choices : {<<>>}, chunks : {<<>>}]
    \cup [error : {"none"}, choices : {<<ObjectText>>, <<ProseText>>},
          chunks : {<<"likes ", "", "jokes">>}]

\* faulty variant: the exception of the API call reaches the caller
Completion_Propagates(stream, api) ==
    IF api.error # "none" THEN [raised |-> TRUE, value |-> "NULL"]
    ELSE [raised |-> FALSE, value |-> api.choices[1]]

\* "".join of the chunk contents that are not empty
RECURSIVE JoinChunks(_)
JoinChunks(chunks) ==
    IF chunks = <<>> THEN ""
    ELSE IF chunks[1] = "" THEN JoinChunks(Tail(chunks))
    ELSE chunks[1] \o JoinChunks(Tail(chunks))

\* AIClient.get_completion, given what the API call does: the except
\* clause turns every exception into a text
Completion(stream, api) ==
    IF api.error # "none"
    THEN [raised |-> FALSE, value |-> "Error generating response: " \o api.error]
    ELSE IF stream THEN [raised |-> FALSE, value |-> JoinChunks(api.chunks)]
    ELSE [raised |-> FALSE, value |-> api.choices[1]]

\* the call as its callers in src/ make it (stream is left at False), or
\* with a streamed response
get_completion(stream, api) ==
    /\ LET got == Completion(stream, api)
       IN  last' = [op |-> "get_completion", committed |-> FALSE,
                    raised |-> got.raised, error |-> "none",
                    call |-> 1 - last.call, stream |-> stream, api |-> api,
                    result |-> got.value]
    /\ Install(DB)
    /\ now' = now
    /\ UNCHANGED <<threads, cleanup_task, process>>

ErrorText == Completion(FALSE, [error |-> "timeout", choices |-> <<>>, chunks |-> <<>>]).value

Responses == {Completion(FALSE, api).value : api \in ApiOutcomes}

\* json.loads on these texts: the object, or JSONDecodeError
JsonLoads(text) ==
    IF text = ObjectText
    THEN [error |-> "none",
          value |-> [personality_notes |-> "notes",
                     common_topics |-> <<"t1", "t2">>,
                     interaction_style |-> "style"]]
    ELSE [error |-> "JSONDecodeError", value |-> <<>>]

\* dict.get(key, default)
DictGet(d, key, default) == IF key \in DOMAIN d THEN d[key] ELSE default

\* AIClient.analyze_user_personality, given the text of the completion
analyze_user_personality(user_messages, response) ==
    IF user_messages = <<>>
    THEN [personality_notes |-> "No messages to analyze",
          common_topics |-> <<>>, interaction_style |-> "Unknown"]
    ELSE LET parsed == JsonLoads(response)
         IN  IF parsed.error = "none" THEN parsed.value
             ELSE [personality_notes |-> response, common_topics |-> <<>>,
                   interaction_style |-> "Analysis available in notes"]

\* MemoryCommand.analyze_user: without messages of the user the command
\* ends early; otherwise the text of the completion is analysed and the
\* analysis goes to update_user_profile, whose errors the store swallows.
\* An exception out of the analysis would end the command in its except
\* clause, before the profile is written.
analyze_user(user_id, guild_id, api, fault) ==
    /\ profiles_seq < MaxProfiles
    /\ LET user_messages == get_user_messages_sync(DB, user_id, guild_id,
                                                   200, 168, now)
           completion == Completion(FALSE, api)
           response == completion.value
           analysis == analyze_user_personality(user_messages, response)
           txn == ProfileTxn(DB, user_id, guild_id,
                      DictGet(analysis, "personality_notes", "NULL"),
                      DictGet(analysis, "common_topics", <<>>),
                      DictGet(analysis, "interaction_style", "NULL"),
                      fault, now)
           call == [op |-> "analyze_user", raised |-> FALSE,
                    call |-> 1 - last.call, user_id |-> user_id,
                    guild_id |-> guild_id, response |-> response,
                    api_error |-> api.error]
       IN IF user_messages = <<>> \/ completion.raised
          THEN /\ Install(DB)
               /\ last' = call @@ [committed |-> FALSE, error |-> "none",
                                   analysed |-> FALSE]
          ELSE /\ Install(IF txn.error = "none" THEN Commit(DB, txn.work)
                          ELSE Rollback(DB, txn.work))
               /\ last' = call @@ [committed |-> txn.error = "none",
                                   error |-> txn.error, analysed |-> TRUE]
    /\ now' = now
    /\ UNCHANGED <<threads, cleanup_task, process>>

(* ------------------------ specifications ------------------------------- *)

InitStore ==
    /\ now = 0
    /\ guilds = <<>>
    /\ channels = <<>>
    /\ users = <<>>
    /\ messages = <<>>
    /\ messages_seq = 0
    /\ partitions = <<>>
    /\ user_profiles = <<>>
    /\ profiles_seq = 0
    /\ context_summaries = <<>>
    /\ summaries_seq = 0
    /\ last = [op |-> "init", committed |-> FALSE, raised |-> FALSE,
               error |-> "none", call |-> 0]
    /\ threads = [w \in 1 .. MaxThreads |-> [pc |-> "idle"]]
    /\ cleanup_task = "none"

\* the store of a bot that is up
Init == InitStore /\ process = Running

\* the store when the bot is started
InitStartup == InitStore /\ process \in Launches

\* the instants datetime.utcnow() can return during one call: the clock
\* advances by at most one unit while the call runs
ClockReads == {t \in now .. now + 1 : t <= MaxTime}

StoreStep ==
    \E guild_id \in GuildIds, channel_id \in ChannelIds, user_id \in UserIds,
       content \in Contents, reply_to_id \in ReplyIds, fault \in Faults,
       tM \in ClockReads, tP \in ClockReads :
        store_message(guild_id, channel_id, user_id, content, "user",
                      reply_to_id, fault, tM, tP)

CleanupStep ==
    \E days_to_keep \in 0 .. MaxKeep, fault \in {"none", "storage"} :
        cleanup_old_data(days_to_keep, fault)

ProfileStep ==
    \E user_id \in UserIds, guild_id \in GuildIds, personality_notes \in Notes,
       common_topics \in TopicLists, fault \in {"none", "storage"} :
        update_user_profile(user_id, guild_id, personality_notes,
                            common_topics, "style", fault)

Next == StoreStep \/ CleanupStep \/ Tick

Spec == Init /\ [][Next]_vars

\* store_message alone: the ledger only grows
NextStore == StoreStep \/ Tick

SpecStore == Init /\ [][NextStore]_vars

\* store_message as Rumi.on_message calls it (no reply_to_id), or with a
\* reply_to_id that references nothing, at one instant
WriteStoreStep ==
    \E guild_id \in GuildIds, user_id \in UserIds,
       reply_to_id \in {NULL, MaxMsgs + 1}, fault \in {"none", "ledger"} :
        store_message(guild_id, "c1", user_id, <<"a", " ", "b">>, "user",
                      reply_to_id, fault, now, now)

\* the two writers whose errors are caught inside the store
NextWrites == WriteStoreStep \/ ProfileStep

SpecWrites == Init /\ [][NextWrites]_vars

\* store_message as Rumi.on_message calls it, at one instant
PlainStoreStep ==
    \E guild_id \in GuildIds, channel_id \in ChannelIds,
       user_id \in {UserDash, UserUnder} :
        store_message(guild_id, channel_id, user_id, <<"a", " ", "b">>, "user",
                      NULL, "none", now, now)

\* hours in the unit of the clock
RecentStep ==
    \E guild_id \in GuildIds, channel_id \in ChannelIds,
       hours \in 0 .. MaxTime, limit \in 0 .. MaxMsgs :
        get_recent_context(guild_id, channel_id, hours, limit)

\* the ledger and its reader
NextRecent == PlainStoreStep \/ RecentStep \/ CleanupStep \/ Tick

SpecRecent == Init /\ [][NextRecent]_vars

\* guild_id and hours are optional: "NULL" and NULL are the default None
UserMessagesStep ==
    \E user_id \in {UserDash, UserSpace}, guild_id \in {"NULL", "g1"},
       limit \in 0 .. MaxMsgs, hours \in {NULL} \cup (0 .. MaxKeep) :
        get_user_messages(user_id, guild_id, limit, hours)

\* the partitions and their reader
NextUserMessages == PlainStoreStep \/ UserMessagesStep \/ Tick

SpecUserMessages == Init /\ [][NextUserMessages]_vars

GetProfileStep ==
    \E user_id \in UserIds, guild_id \in GuildIds :
        get_user_profile(user_id, guild_id)

\* the profiles, their reader and the ledger that the profile counts
NextProfiles == WriteStoreStep \/ ProfileStep \/ GetProfileStep

SpecProfiles == Init /\ [][NextProfiles]_vars

SummaryStep ==
    \E guild_id \in GuildIds, channel_id \in ChannelIds, summary \in Summaries,
       fault \in {"none", "storage"} :
        store_summary(guild_id, channel_id, summary, 3, 0, now, fault)

\* days_back in the unit of the clock: now, one unit or the span of Sleep
ContextStep ==
    \E guild_id \in GuildIds, channel_id \in ChannelIds,
       days_back \in {0, 1, SummaryDays} :
        get_conversation_context(guild_id, channel_id, days_back)

\* summaries over a span that is longer than their retention
NextSummaries == SummaryStep \/ ContextStep \/ CleanupStep \/ Tick \/ Sleep

SpecSummaries == Init /\ [][NextSummaries]_vars

BeginStep ==
    \E w \in 1 .. MaxThreads, guild_id \in GuildIds, channel_id \in ChannelIds,
       user_id \in UserIds, fault \in {"none", "ledger", "insert"} :
        ThreadBegin(w, guild_id, channel_id, user_id, fault)

EndStep == \E w \in 1 .. MaxThreads : ThreadEnd(w)

BusyStep == \E w \in 1 .. MaxThreads, user_id \in UserIds : ThreadBusy(w, user_id)

\* store_message calls that run at the same time on different threads
NextThreads == BeginStep \/ EndStep \/ BusyStep

SpecThreads == Init /\ [][NextThreads]_vars

InitDatabaseStep == init_database

\* store_message as Rumi.on_message calls it, in one channel
ChannelStoreStep ==
    \E user_id \in {UserDash, UserSpace} :
        store_message("g1", "c1", user_id, <<"a", " ", "b">>, "user", NULL,
                      "none", now, now)

\* the other two writers in that channel
SchemaProfileStep ==
    \E user_id \in {UserDash, UserSpace} :
        update_user_profile(user_id, "g1", "notes", <<>>, "style", "none")

SchemaSummaryStep ==
    \E summary \in Summaries : store_summary("g1", "c1", summary, 3, 0, now, "none")

\* every table in use, and a ContextManager constructed again on the file
NextSchema ==
    \/ ChannelStoreStep
    \/ SchemaProfileStep
    \/ SchemaSummaryStep
    \/ InitDatabaseStep
    \/ Tick

SpecSchema == Init /\ [][NextSchema]_vars

SummaryCommandStep ==
    \E guild_id \in GuildIds, channel_id \in ChannelIds,
       text_channel \in BOOLEAN, found \in 0 .. 1, api \in {"ok", "error"},
       summary \in Summaries :
        SummaryCommand_execute(guild_id, channel_id, text_channel, found, api,
                               summary)

\* the /summary command, the summary store and its reader
NextSummaryCommand == SummaryCommandStep \/ SummaryStep \/ ContextStep \/ Tick

SpecSummaryCommand == Init /\ [][NextSummaryCommand]_vars

RegistryProfileStep ==
    \E user_id \in {UserDash, UserSpace}, guild_id \in GuildIds :
        update_user_profile(user_id, guild_id, "notes", <<>>, "style", "none")

\* every operation that writes, on the tables that are never cleaned
NextRegistry ==
    \/ WriteStoreStep
    \/ RegistryProfileStep
    \/ CleanupStep
    \/ InitDatabaseStep
    \/ Tick

SpecRegistry == Init /\ [][NextRegistry]_vars

\* days_to_keep around the fixed horizon of the summaries
RetentionDays == {0, MaxKeep, SummaryDays, SummaryDays + 1}

RetentionCleanupStep ==
    \E days_to_keep \in RetentionDays : cleanup_old_data(days_to_keep, "none")

\* messages and summaries of one channel under cleanups of every horizon
NextRetention ==
    \/ ChannelStoreStep
    \/ SchemaSummaryStep
    \/ RetentionCleanupStep
    \/ Tick
    \/ Sleep

SpecRetention == Init /\ [][NextRetention]_vars

AnalyzeStep ==
    \E user_id \in {UserDash, UserSpace}, guild_id \in GuildIds,
       api \in ApiOutcomes, fault \in {"none", "storage"} :
        analyze_user(user_id, guild_id, api, fault)

CompletionStep ==
    \E stream \in BOOLEAN, api \in ApiOutcomes : get_completion(stream, api)

\* the /memory analyze command on the messages that on_message stored, and
\* the completion call by itself
NextAnalyze == ChannelStoreStep \/ AnalyzeStep \/ CompletionStep \/ Tick

SpecAnalyze == Init /\ [][NextAnalyze]_vars

ReadyStep == on_ready

MessageStep ==
    \E guild_id \in GuildIds, channel_id \in ChannelIds,
       user_id \in {UserDash, UserUnder} :
        on_message(guild_id, channel_id, user_id, <<"a", " ", "b">>)

LoopStep == \E fault \in {"none", "storage"} : memory_cleanup_loop(fault)

\* the bot: its handlers and its background task on one event loop
NextBot == ReadyStep \/ MessageStep \/ LoopStep

\* The gateway delivers READY, and the event loop runs every task that is
\* ready to run.
SpecBot == Init /\ [][NextBot]_vars /\ WF_vars(ReadyStep) /\ WF_vars(LoopStep)

ImportStep == import_rumi

MainStep == main

StartedReadyStep == process.pc = "running" /\ ReadyStep

StartedMessageStep == process.pc = "running" /\ MessageStep

StartedLoopStep == process.pc = "running" /\ LoopStep

\* the start of the bot, and its handlers once bot.run is reached
NextStartup ==
    \/ ImportStep
    \/ MainStep
    \/ StartedReadyStep
    \/ StartedMessageStep
    \/ StartedLoopStep

SpecStartup == InitStartup /\ [][NextStartup]_vars

(* ------------------------ observations --------------------------------- *)

MsgIds(msgs) == {msgs[i].id : i \in DOMAIN msgs}

\* the rows of the partition table that user_id's messages are written to
PartitionRows(parts, user_id) ==
    IF UserTable(user_id) \in DOMAIN parts THEN parts[UserTable(user_id)].rows
    ELSE <<>>

\* the mirrors of ledger row id in a partition
Mirrors(rows, id) == {j \in DOMAIN rows : rows[j].message_id = id}

\* users.total_messages of user_id, 0 while the user has no row
TotalMessages(us, user_id) ==
    IF \E i \in DOMAIN us : us[i].user_id = user_id
    THEN (CHOOSE r \in Range(us) : r.user_id = user_id).total_messages
    ELSE 0

Authored(msgs, user_id) == {i \in DOMAIN msgs : msgs[i].user_id = user_id}

\* the step is a call of op that has returned
Called(op) == last'.call # last.call /\ last'.op = op

Tables == <<guilds, channels, users, messages, messages_seq, partitions,
            user_profiles, profiles_seq, context_summaries, summaries_seq>>

(* ------------------------ claims ---------------------------------------- *)

\* C1: every store_message call that commits adds exactly one row to the
\* ledger, exactly one row to the author's partition table, whose message_id
\* is the id of the new ledger row, and adds exactly 1 to the author's
\* users.total_messages.
C1_StoreAddsOneRowEach ==
    [][(Called("store_message") /\ last'.committed) =>
          /\ Len(messages') = Len(messages) + 1
          /\ SubSeq(messages', 1, Len(messages)) = messages
          /\ LET m == messages'[Len(messages')]
                 before == PartitionRows(partitions, m.user_id)
                 after == PartitionRows(partitions', m.user_id)
             IN /\ m.id \notin MsgIds(messages)
                /\ Len(after) = Len(before) + 1
                /\ SubSeq(after, 1, Len(before)) = before
                /\ after[Len(after)].message_id = m.id
                /\ TotalMessages(users', m.user_id)
                      = TotalMessages(users, m.user_id) + 1]_vars

\* a second message of the same author has been stored after the first
C1_Witness ==
    /\ last.op = "store_message" /\ last.committed
    /\ Len(messages) = 2
    /\ messages[1].user_id = messages[2].user_id
    /\ TotalMessages(users, messages[2].user_id) = 2

\* C2: in every state reached by store_message and cleanup_old_data, each
\* ledger row has exactly one row with its message_id in the partition table
\* of its author.
C2_EveryLedgerRowMirroredOnce ==
    \A i \in DOMAIN messages :
        Cardinality(Mirrors(PartitionRows(partitions, messages[i].user_id),
                            messages[i].id)) = 1

\* a cleanup has deleted an older message and kept a younger one
C2_Witness ==
    /\ last.op = "cleanup_old_data" /\ last.committed
    /\ Len(messages) = 1
    /\ messages_seq = 2

\* C3: after a cleanup run no partition row refers to a ledger row that is
\* gone: every partition row's message_id is the id of a ledger row.
C3_NoPartitionRowWithoutLedgerRow ==
    last.op = "cleanup_old_data" =>
        \A t \in DOMAIN partitions :
            \A j \in DOMAIN partitions[t].rows :
                partitions[t].rows[j].message_id \in MsgIds(messages)

\* C4: a store_message call that fails at any step leaves guilds, channels,
\* users, the ledger and every partition as they were before the call.
C4_FailedStoreChangesNothing ==
    [][(Called("store_message") /\ ~last'.committed) => UNCHANGED Tables]_vars

\* a store has failed at the creation of the partition table, after its
\* ledger row was inserted, with earlier messages in the store
C4_Witness ==
    /\ last.op = "store_message" /\ last.error = "syntax"
    /\ Len(messages) >= 1

\* C5: a store_message or update_user_profile call that does not commit its
\* write reports the failure to its caller.
C5_FailedWriteIsReported ==
    (last.op \in {"store_message", "update_user_profile"} /\ ~last.committed)
        => last.raised

\* C6: every ledger row's user_id, guild_id and channel_id reference rows of
\* users, guilds and channels, and store_message never fails for a missing
\* parent: it registers the parents itself.
C6_ParentsRegistered ==
    /\ \A i \in DOMAIN messages : ParentsExist(DB, messages[i])
    /\ last.error # "fk_parent"

\* a message whose guild, channel and user were all unknown before the call
C6_Witness ==
    /\ last.op = "store_message" /\ last.committed
    /\ Len(messages) = 2
    /\ messages[1].guild_id # messages[2].guild_id
    /\ messages[1].channel_id # messages[2].channel_id
    /\ messages[1].user_id # messages[2].user_id

\* C7: guilds, channels and users hold at most one row per id, however many
\* messages used the same ids.
C7_OneRowPerId ==
    /\ \A i, j \in DOMAIN guilds : guilds[i].guild_id = guilds[j].guild_id => i = j
    /\ \A i, j \in DOMAIN channels :
           channels[i].channel_id = channels[j].channel_id => i = j
    /\ \A i, j \in DOMAIN users : users[i].user_id = users[j].user_id => i = j

\* two stored messages with the same guild, channel and user ids
C7_Witness ==
    /\ Len(messages) = 2
    /\ messages[1].guild_id = messages[2].guild_id
    /\ messages[1].channel_id = messages[2].channel_id
    /\ messages[1].user_id = messages[2].user_id
    /\ Len(guilds) = 1 /\ Len(channels) = 1 /\ Len(users) = 1

\* C8: while only store_message runs, every user's total_messages equals the
\* number of ledger rows of that user.
C8_CounterEqualsLedgerRows ==
    \A user_id \in UserIds :
        TotalMessages(users, user_id) = Cardinality(Authored(messages, user_id))

\* a user with two stored messages
C8_Witness ==
    \E user_id \in UserIds :
        /\ TotalMessages(users, user_id) = 2
        /\ Cardinality(Authored(messages, user_id)) = 2

\* C9: store_message called with a reply_to_id that references no ledger row
\* (and is not the id the new row itself gets) stores the message with
\* reply_to_id null.
C9_DanglingReplyStoredAsNull ==
    [][\A guild_id \in GuildIds, channel_id \in ChannelIds,
          reply_to_id \in ReplyIds \ {NULL, messages_seq + 1},
          tP \in ClockReads :
          (/\ ~HasMessage(DB, reply_to_id)
           /\ store_message(guild_id, channel_id, UserDash, <<"a", " ", "b">>,
                            "user", reply_to_id, "none", now, tP))
          => /\ Len(messages') = Len(messages) + 1
             /\ messages'[Len(messages')].reply_to_id = NULL]_vars

\* C10: the ledger row a store_message call commits has a null reply_to_id
\* or one that is the id of a row in the ledger at the commit.
C10_CommittedReplyExists ==
    [][(Called("store_message") /\ last'.committed) =>
          LET m == messages'[Len(messages')]
          IN m.reply_to_id = NULL \/ m.reply_to_id \in MsgIds(messages')]_vars

\* a committed reply to an earlier message
C10_Witness ==
    /\ last.op = "store_message" /\ last.committed
    /\ Len(messages) = 2
    /\ messages[2].reply_to_id = messages[1].id

C13_OnePartitionPerUser ==
    /\ \A i, j \in DOMAIN users :
           users[i].user_id # users[j].user_id
               => UserTable(users[i].user_id) # UserTable(users[j].user_id)
    /\ \A t \in DOMAIN partitions :
           \A j, k \in DOMAIN partitions[t].rows :
               \A m, n \in DOMAIN messages :
                   (/\ messages[m].id = partitions[t].rows[j].message_id
                    /\ messages[n].id = partitions[t].rows[k].message_id)
                   => messages[m].user_id = messages[n].user_id

\* C14: once concurrent store_message calls for pairwise different users have
\* all returned, and all have committed, every user's partition holds as many
\* rows as calls were made for that user, all of them mirrors of that user's
\* ledger rows.
C14_PartitionRowsEqualCalls ==
    (/\ \A w \in DOMAIN threads :
            threads[w].pc = "returned" /\ threads[w].error = "none"
     /\ \A v, w \in DOMAIN threads :
            v # w => threads[v].user_id # threads[w].user_id)
    => \A w \in DOMAIN threads :
           LET rows == PartitionRows(partitions, threads[w].user_id)
           IN /\ Len(rows) = 1
              /\ \A j \in DOMAIN rows :
                     \E m \in DOMAIN messages :
                         /\ messages[m].id = rows[j].message_id
                         /\ messages[m].user_id = threads[w].user_id

\* C15: get_recent_context(guild_id, channel_id, hours, limit) with
\* limit >= 0 returns at most limit rows; every row is a ledger row of that
\* channel in that guild with timestamp > now - hours; the rows are in
\* ascending order of timestamp.
C15_RecentContextBoundedFilteredAscending ==
    [][Called("get_recent_context") =>
          LET call == last'
              rows == call.result
          IN /\ Len(rows) <= call.limit
             /\ \A i \in DOMAIN rows :
                    /\ rows[i].timestamp > now - call.hours
                    /\ \E m \in DOMAIN messages :
                           /\ messages[m].guild_id = call.guild_id
                           /\ messages[m].channel_id = call.channel_id
                           /\ ContextRow(messages[m]) = rows[i]
             /\ \A i, j \in DOMAIN rows :
                    i < j => rows[i].timestamp <= rows[j].timestamp]_vars

\* a read with limit 2 has returned two rows of different age while
\* the ledger also held them
C15_Witness ==
    /\ last.op = "get_recent_context"
    /\ Len(last.result) = 2
    /\ last.result[1].timestamp < last.result[2].timestamp
    /\ Len(messages) = 2

\* C16: get_conversation_context(guild_id, channel_id, days_back) returns the
\* text 'No recent conversation context available.' exactly when no summary
\* of that guild and channel has created_at > now - days_back; it never
\* returns an empty text and does not raise.
C16_SentinelIffNoSummaryInWindow ==
    [][Called("get_conversation_context") =>
          LET call == last'
              none == \A i \in DOMAIN context_summaries :
                         ~(/\ context_summaries[i].guild_id = call.guild_id
                           /\ context_summaries[i].channel_id = call.channel_id
                           /\ context_summaries[i].created_at
                                  > now - call.days_back)
          IN /\ (call.result = <<"No recent conversation context available.">>)
                    <=> none
             /\ call.result # <<>> /\ call.result # <<"">>
             /\ ~call.raised]_vars

\* the sentinel was returned although the channel has a summary: it was
\* created exactly days_back before the call, at the edge of the window
C16_Witness ==
    /\ last.op = "get_conversation_context"
    /\ last.result = NoContext
    /\ \E i \in DOMAIN context_summaries :
           /\ context_summaries[i].guild_id = last.guild_id
           /\ context_summaries[i].channel_id = last.channel_id
           /\ context_summaries[i].created_at = now - last.days_back

\* C17: when summaries of the guild and channel have created_at inside the
\* window, the text of get_conversation_context holds, after the heading,
\* one entry per such summary and no other entry; the entry shows the
\* summary's start time, end time and text; the entries are in ascending
\* order of created_at.
C17_ContextListsWindowSummariesInOrder ==
    [][Called("get_conversation_context") =>
          LET call == last'
              text == call.result
              inside == SelectSeq(context_summaries,
                            LAMBDA s : /\ s.guild_id = call.guild_id
                                       /\ s.channel_id = call.channel_id
                                       /\ s.created_at > now - call.days_back)
          IN inside # <<>> =>
                /\ Len(text) = 2 + 3 * Len(inside)
                /\ \A i \in DOMAIN inside :
                       /\ text[3 * i] =
                              "**" \o ToString(inside[i].start_time) \o " - "
                                   \o ToString(inside[i].end_time) \o "** ("
                                   \o ToString(inside[i].message_count)
                                   \o " messages):"
                       /\ text[3 * i + 1] = inside[i].summary
                /\ \A i, j \in DOMAIN inside :
                       i < j => inside[i].created_at <= inside[j].created_at]_vars

\* the text lists the channel's two summaries, the older first, while
\* the table holds them
C17_Witness ==
    /\ last.op = "get_conversation_context"
    /\ Len(last.result) = 8
    /\ last.result[4] = "s2" /\ last.result[7] = "s1"
    /\ Len(context_summaries) = 2
    /\ context_summaries[1].created_at < context_summaries[2].created_at

\* C18: after an update_user_profile call (no storage fault) has returned,
\* get_user_profile for that user and guild returns the notes, the topic
\* list and the style that were passed (an absent topic list is the empty
\* list), and as message count the number of ledger rows of the user in the
\* guild at the time of the write.
C18_ProfileRoundTrip ==
    [][\A user_id \in UserIds, guild_id \in GuildIds,
          personality_notes \in Notes, common_topics \in TopicLists :
          update_user_profile(user_id, guild_id, personality_notes,
                              common_topics, "style", "none")
          => LET got == get_user_profile_sync(DB', user_id, guild_id)
             IN /\ got # <<>>
                /\ got[1].personality_notes = personality_notes
                /\ got[1].common_topics = common_topics
                /\ got[1].interaction_style = "style"
                /\ got[1].guild_message_count
                      = Cardinality({i \in DOMAIN messages :
                                        /\ messages[i].user_id = user_id
                                        /\ messages[i].guild_id = guild_id})]_vars

\* C19: user_profiles never holds two rows with the same user_id and
\* guild_id; an update_user_profile that commits leaves one row for its
\* key, which holds the values of this call, and leaves the rows of every
\* other key as they were.
C19_OneProfilePerUserAndGuild ==
    [][/\ \A i, j \in DOMAIN user_profiles' :
              (/\ user_profiles'[i].user_id = user_profiles'[j].user_id
               /\ user_profiles'[i].guild_id = user_profiles'[j].guild_id)
              => i = j
       /\ \A user_id \in UserIds, guild_id \in GuildIds,
             personality_notes \in Notes, common_topics \in TopicLists :
             (/\ update_user_profile(user_id, guild_id, personality_notes,
                                     common_topics, "style", "none")
              /\ last'.committed)
             => /\ SelectSeq(user_profiles',
                       LAMBDA p : p.user_id # user_id \/ p.guild_id # guild_id)
                     = SelectSeq(user_profiles,
                         LAMBDA p : p.user_id # user_id \/ p.guild_id # guild_id)
                /\ \E i \in DOMAIN user_profiles' :
                       /\ user_profiles'[i].user_id = user_id
                       /\ user_profiles'[i].guild_id = guild_id
                       /\ user_profiles'[i].personality_notes
                              = personality_notes]_vars

\* the second analysis of a user in a guild has replaced the first
C19_Witness ==
    /\ last.op = "update_user_profile" /\ last.committed
    /\ profiles_seq = 2
    /\ Len(user_profiles) = 1
    /\ user_profiles[1].id = 2
    /\ user_profiles[1].personality_notes = "notes"

\* C20: get_user_profile returns nothing exactly when the user has no row in
\* users; for a registered user without a profile in the guild it returns
\* the user's total_messages with no notes, no style, an empty topic list
\* and a message count of 0.
C20_ProfileOfUnknownAndUnprofiledUser ==
    [][Called("get_user_profile") =>
          LET call == last'
              got == call.result
              registered == \E i \in DOMAIN users :
                                users[i].user_id = call.user_id
              profiled == \E i \in DOMAIN user_profiles :
                              /\ user_profiles[i].user_id = call.user_id
                              /\ user_profiles[i].guild_id = call.guild_id
          IN /\ (got = <<>>) <=> ~registered
             /\ (registered /\ ~profiled) =>
                    /\ got[1].total_messages
                          = TotalMessages(users, call.user_id)
                    /\ got[1].personality_notes = "NULL"
                    /\ got[1].interaction_style = "NULL"
                    /\ got[1].common_topics = <<>>
                    /\ got[1].guild_message_count = 0]_vars

\* a user with messages and with a profile in one guild was read for the
\* guild in which they have no profile
C20_Witness ==
    /\ last.op = "get_user_profile"
    /\ last.result # <<>>
    /\ last.result[1].total_messages >= 1
    /\ last.result[1].personality_notes = "NULL"
    /\ \E i \in DOMAIN user_profiles :
           /\ user_profiles[i].user_id = last.user_id
           /\ user_profiles[i].guild_id # last.guild_id

\* C21: get_user_messages(user_id, guild_id, limit, hours) returns rows of
\* the user's partition that pass the filters that were given (guild_id
\* equal, timestamp > now - hours), in ascending order of timestamp; it
\* returns min(limit, number of passing rows) of them and no passing row
\* that is left out is younger than a returned one; without a partition
\* table the result is empty.
C21_UserMessagesFilteredNewestAscending ==
    [][Called("get_user_messages") =>
          LET call == last'
              rows == call.result
              part == PartitionRows(partitions, call.user_id)
              passes(r) == /\ call.guild_id # "NULL" => r.guild_id = call.guild_id
                           /\ call.hours # NULL
                                 => r.timestamp > now - call.hours
              passing == {j \in DOMAIN part : passes(part[j])}
          IN /\ \A i \in DOMAIN rows :
                    \E j \in passing : part[j] = rows[i]
             /\ \A i, j \in DOMAIN rows :
                    i < j => /\ rows[i].timestamp <= rows[j].timestamp
                             /\ rows[i].id # rows[j].id
             /\ Len(rows) = IF call.limit < Cardinality(passing)
                             THEN call.limit ELSE Cardinality(passing)
             /\ \A j \in passing :
                    (\A i \in DOMAIN rows : rows[i] # part[j])
                    => \A i \in DOMAIN rows :
                           part[j].timestamp <= rows[i].timestamp
             /\ UserTable(call.user_id) \notin DOMAIN partitions
                    => rows = <<>>]_vars

\* C22: a cleanup_old_data call in which the DELETE on a partition table
\* fails (the storage fault, which strikes after the ledger's DELETE) keeps
\* the deletions that succeeded, so the old ledger rows are gone, goes on
\* to delete the old summaries, and reports the failure to its caller.
C22_CleanupKeepsDeletionsThatSucceeded ==
    [][\A days_to_keep \in 0 .. MaxKeep :
          cleanup_old_data(days_to_keep, "storage") =>
             /\ messages' = SelectSeq(messages,
                                LAMBDA m : m.timestamp >= now - days_to_keep)
             /\ context_summaries' =
                    SelectSeq(context_summaries,
                        LAMBDA s : s.created_at >= now - SummaryDays)
             /\ last'.raised]_vars

\* C23: cleanup_old_data is idempotent.  After a cleanup_old_data(days_to_keep)
\* call has committed, the same call on the state it left, at the same clock
\* and with no write in between, raises no error and deletes nothing: its
\* result is the state that the single run left.
C23_CleanupIdempotent ==
    [][\A days_to_keep \in 0 .. MaxKeep :
          cleanup_old_data(days_to_keep, "none") =>
             LET again == CleanupTxn(DB', days_to_keep, "none", now')
             IN  /\ again.error = "none"
                 /\ Commit(DB', again.work) = DB']_vars

\* a cleanup has deleted every message that was stored, from the ledger and
\* from the partitions
C23_Witness ==
    /\ last.op = "cleanup_old_data" /\ last.committed
    /\ messages = <<>> /\ messages_seq = MaxMsgs
    /\ \A t \in DOMAIN partitions : partitions[t].rows = <<>>

\* C24: once the bot is ready the cleanup loop keeps coming back to its
\* wait, where it has given up the event loop so that message handling can
\* run, and keeps coming back to its call of cleanup_old_data; an error in
\* one round does not end the loop.
C24_CleanupLoopWaitsAndRunsForever ==
    /\ (cleanup_task # "none") ~> (cleanup_task = "sleeping")
    /\ (cleanup_task # "none") ~> (cleanup_task = "cleanup")

\* C25: init_database on a new file creates the seven fixed tables, all
\* empty, and init_database on an initialised database changes no table and
\* no row, whatever the tables hold.
C25_InitDatabaseIdempotent ==
    [][Called("init_database") =>
          /\ UNCHANGED Tables
          /\ init_database_sync(DB) = DB
          /\ LET created == init_database_sync(NewFile)
             IN  /\ FixedTables \subseteq DOMAIN created
                 /\ \A table \in FixedTables : created[table] = <<>>
                 /\ init_database_sync(created) = created]_vars

\* a ContextManager has been constructed on a database that holds a
\* message, its partition, a profile and a summary
C25_Witness ==
    /\ last.op = "init_database"
    /\ messages # <<>> /\ partitions # <<>>
    /\ user_profiles # <<>> /\ context_summaries # <<>>

\* C26: every write runs with foreign keys enforced, so after a write has
\* committed no row references a parent that is missing: a ledger row has
\* its guild, channel, user and replied-to message, a summary has its guild
\* and channel, and a profile has its user and guild.
C26_NoCommittedRowWithoutParent ==
    last.committed =>
        /\ \A i \in DOMAIN messages :
               ParentsExist(DB, messages[i]) /\ ReplyExists(DB, messages[i])
        /\ \A i \in DOMAIN context_summaries :
               /\ HasGuild(DB, context_summaries[i].guild_id)
               /\ HasChannel(DB, context_summaries[i].channel_id)
        /\ \A i \in DOMAIN user_profiles :
               /\ HasUser(DB, user_profiles[i].user_id)
               /\ HasGuild(DB, user_profiles[i].guild_id)

\* C27: store_summary is a pure append.  A call that returns adds exactly
\* one row, which carries the call's arguments and an id that no summary
\* row ever had, and leaves the rows that were there unchanged; a call that
\* raises adds nothing.  So summary ids are pairwise distinct, and k calls
\* with identical arguments leave k rows.
C27_StoreSummaryAppendsOneRow ==
    [][Called("store_summary") =>
          IF last'.committed
          THEN /\ Len(context_summaries') = Len(context_summaries) + 1
               /\ SubSeq(context_summaries', 1, Len(context_summaries))
                      = context_summaries
               /\ LET row == context_summaries'[Len(context_summaries')]
                  IN  /\ row.id > summaries_seq
                      /\ \A i \in DOMAIN context_summaries :
                             context_summaries[i].id <= summaries_seq
                      /\ row.guild_id \in GuildIds
                      /\ row.summary \in Summaries
                      /\ row.created_at = now
               /\ \A i, j \in DOMAIN context_summaries' :
                      i # j => context_summaries'[i].id # context_summaries'[j].id
          ELSE context_summaries' = context_summaries /\ last'.raised]_vars

\* two calls with identical arguments at the same instant have left two
\* rows that differ in nothing but their ids
C27_Witness ==
    /\ last.op = "store_summary" /\ last.committed
    /\ Len(context_summaries) = 2
    /\ context_summaries[1].id # context_summaries[2].id
    /\ [context_summaries[1] EXCEPT !.id = 0]
           = [context_summaries[2] EXCEPT !.id = 0]

\* C29: when the /summary command has generated a summary for a channel,
\* the summary is in the store, so a get_conversation_context call for that
\* guild and channel that follows within the look-back window lists it.
C29_GeneratedSummaryIsInNextContext ==
    [][(Called("summary") /\ last'.generated) =>
          \A days_back \in {1, SummaryDays} :
              LET text == get_conversation_context_sync(DB', last'.guild_id,
                              last'.channel_id, days_back, now')
              IN  \E i \in DOMAIN text : text[i] = last'.summary]_vars

\* C30: when the analyzer's output is not valid JSON, the profile that the
\* analyze flow stores has the raw output as its personality notes, no
\* topics and an empty interaction style.
C30_MalformedAnalysisStoredAsNotes ==
    [][(/\ Called("analyze_user")
        /\ last'.committed
        /\ JsonLoads(last'.response).error # "none") =>
          LET got == get_user_profile_sync(DB', last'.user_id, last'.guild_id)
          IN  /\ got # <<>>
              /\ got[1].personality_notes = last'.response
              /\ got[1].common_topics = <<>>
              /\ got[1].interaction_style \in {"", "NULL"}]_vars

\* C28: every writer of the store has closed the connection it opened when
\* it ends, whether it returns or fails.
C28_WritersCloseTheirConnection ==
    last.op \in {"store_message", "update_user_profile", "store_summary",
                 "cleanup_old_data"} => last.closed

\* C31: get_completion never raises.  When the API call fails, the text it
\* returns is 'Error generating response', a colon and the message of the
\* error; when the call succeeds and is not streamed, it returns the content
\* of the first choice.
C31_CompletionNeverRaises ==
    [][Called("get_completion") =>
          LET call == last'
          IN  /\ ~call.raised
              /\ call.api.error # "none" =>
                     call.result = "Error generating response" \o ": " \o call.api.error
              /\ (call.api.error = "none" /\ ~call.stream) =>
                     call.result = call.api.choices[1]]_vars

\* a completion call whose API call failed has returned its error text
C31_Witness ==
    /\ last.op = "get_completion"
    /\ last.api.error = "rate limit"
    /\ last.result = "Error generating response: rate limit"

C33_PartitionRowCopiesLedgerRow ==
    [][(Called("store_message") /\ last'.committed) =>
          LET m == messages'[Len(messages')]
              part == PartitionRows(partitions', m.user_id)
              r == part[Len(part)]
          IN  /\ r.message_id = m.id
              /\ r.guild_id = m.guild_id
              /\ r.channel_id = m.channel_id
              /\ r.content = m.content
              /\ r.word_count = m.word_count
              /\ r.reply_to_id = m.reply_to_id
              /\ r.timestamp = m.timestamp
              /\ \A cutoff \in 0 .. MaxTime :
                     r.timestamp < cutoff <=> m.timestamp < cutoff]_vars

C35_SummariesOutliveMessages ==
    [][\A days_to_keep \in RetentionDays :
           cleanup_old_data(days_to_keep, "none") =>
               \A i \in DOMAIN context_summaries :
                   (\A j \in DOMAIN context_summaries' :
                        context_summaries'[j].id # context_summaries[i].id)
                   => \A k \in DOMAIN messages' :
                          messages'[k].timestamp
                              # context_summaries[i].created_at]_vars

\* C36: when no API key is configured and the token is, the start ends with
\* the bot running and the warning of main() reported, never with the
\* process exited.
C36_BotStartsWithoutApiKey ==
    (/\ {"OPENAI_API_KEY", "GROQ_API_KEY"} \cap process.environ = {}
     /\ "DISCORD_TOKEN" \in process.environ
     /\ process.pc \in {"running", "exited"})
    => (process.pc = "running" /\ process.warned)

\* C37: the id of a message that a successful store_message call inserts is
\* larger than the id of every earlier successful call (the sequence, which
\* no step lowers), larger than every id in the ledger and larger than the
\* message_id of every partition row, also when cleanup_old_data has
\* deleted the rows with the highest ids.
C37_MessageIdsAreNeverReused ==
    [][/\ messages_seq' >= messages_seq
       /\ (Called("store_message") /\ last'.committed) =>
              LET new == messages'[Len(messages')]
              IN /\ new.id > messages_seq
                 /\ messages_seq' = new.id
                 /\ \A i \in DOMAIN messages : messages[i].id < new.id
                 /\ \A t \in DOMAIN partitions :
                        \A j \in DOMAIN partitions[t].rows :
                            partitions[t].rows[j].message_id < new.id]_vars

\* a message stored after a cleanup has deleted the row with the highest id
C37_Witness ==
    /\ last.op = "store_message" /\ last.committed
    /\ Len(messages) = 1
    /\ messages[1].id = 2

\* C38: in every state that store_message and cleanup_old_data calls lead
\* to, a ledger row with a reply_to_id has its replied-to row in the ledger.
C38_RepliedToMessagesAreKept ==
    \A i \in DOMAIN messages :
        messages[i].reply_to_id # NULL =>
            \E j \in DOMAIN messages : messages[j].id = messages[i].reply_to_id

\* C39: an analyze command whose API call fails leaves the profiles as they
\* were, and no profile has the error text of a failed call as its
\* personality notes.
C39_FailedAnalysisWritesNoProfile ==
    [][(Called("analyze_user") /\ last'.api_error # "none") =>
          /\ user_profiles' = user_profiles
          /\ \A i \in DOMAIN user_profiles' :
                 \A error \in ApiErrors :
                     user_profiles'[i].personality_notes
                         # "Error generating response: " \o error]_vars

====
